---- MODULE Spec2Model ----
(***************************************************************************)
(* The user/admin account use case of back-editfolio                       *)
(* (user/usecase/ucase.go), its repositories and its delete handlers.      *)
(*                                                                         *)
(* Every use-case call runs in a process p.  A call is cut at its          *)
(* repository calls: each lookup and each Save is one step, so that calls  *)
(* of concurrent HTTP requests interleave as they do on one database.      *)
(* A Go pointer is a sequence: <<>> is nil, <<v>> points to v.             *)
(***************************************************************************)
EXTENDS Integers, Sequences, FiniteSets, TLC

\* ------------------------------------------------------------- bounds
MaxNames == 2
MaxPw == 2
\* use-case calls started in one behaviour
MaxCalls == 3

Procs == {"p1", "p2"}
\* uuid.New() never repeats: one id for every call that can create a user
Ids == 1..MaxCalls
\* a well-formed uuid that no user ever has
UnknownId == MaxCalls + 1
Usernames == 1..MaxNames
Passwords == 1..MaxPw

\* ------------------------------------------------------------- errors
Nil == "nil"
ItemNotFound == "ItemNotFound"
ItemAlreadyExist == "ItemAlreadyExist"
UserWrongPassword == "UserWrongPassword"
\* any error that is none of the domain sentinels: a context deadline, a
\* driver error, a duplicate-key error
Internal == "internal"
\* the error of a failed tokenAdapter.Generate
TokenError == "tokenError"

DomainErrors == {ItemNotFound, ItemAlreadyExist, UserWrongPassword}

\* ------------------------------------------------------------- roles
CustomerUserRole == "CUSTOMER"
AdminUserRole == "ADMIN"
SuperAdminUserRole == "SUPER_ADMIN"

\* ------------------------------------------------------------- entities
\* The credential kept for a password: a digest, never the password.
Hash(pw) == <<"hash", pw>>

\* var entity domain.User: the zero value a failed First leaves behind
ZeroUser ==
  [id |-> 0, username |-> 0, cred |-> <<>>, role |-> "", deleted |-> FALSE,
   manager |-> <<>>]

ZeroManager == [username |-> 0]

ComparePassword(u, pw) == u.cred = Hash(pw)

UpdatePassword(u, pw) == [u EXCEPT !.cred = Hash(pw)]

IsCustomer(u) == u.role = CustomerUserRole

IsAdmin(u) == u.role = AdminUserRole

IsDeleted(u) == u.deleted

Delete(u) == [u EXCEPT !.deleted = TRUE]

\* domain.ExistsAdmin(user): non-nil and of the Admin role or above
ExistsAdmin(ptr) ==
  /\ ptr # <<>>
  /\ ptr[1].role \in {AdminUserRole, SuperAdminUserRole}

UpdateManagerInfo(u, username) ==
  [u EXCEPT !.username = username,
            !.manager = <<[username |-> username]>>]

CreateUser(id, role, username) ==
  [id |-> id, username |-> username, cred |-> <<>>, role |-> role,
   deleted |-> FALSE, manager |-> <<>>]

createUser(id, role, username, password) ==
  UpdatePassword(CreateUser(id, role, username), password)

CreateManager(u) == [username |-> u.username]

\* the columns of a user row (the Manager association is its own table)
Row(u) ==
  [username |-> u.username, cred |-> u.cred, role |-> u.role,
   deleted |-> u.deleted]

Entity(id, row) ==
  [id |-> id, username |-> row.username, cred |-> row.cred,
   role |-> row.role, deleted |-> row.deleted, manager |-> <<>>]

\* ------------------------------------------------------------- HTTP handlers
\* What a handler answers for the error its use case returned.  fault: the
\* handler panicked before it wrote an answer.
Answer(status) == [status |-> status, fault |-> FALSE]

NoResponse == [status |-> 0, fault |-> FALSE]

\* err.Error() on a nil error: a nil dereference
Panic == [status |-> 0, fault |-> TRUE]

\* ctx.JSON(status, domain.ErrorResponse{Message: err.Error()})
JSONErrorMessage(status, e) == IF e = Nil THEN Panic ELSE Answer(status)

createCustomer(e) == IF e = Nil THEN Answer(201) ELSE Answer(500)

deleteCustomerUser(e) ==
  IF e = Nil THEN JSONErrorMessage(204, e)
  ELSE IF e = ItemNotFound THEN JSONErrorMessage(404, e)
  ELSE Answer(500)

updateAdminPassword(e) ==
  IF e = Nil THEN Answer(204)
  ELSE IF e \in {UserWrongPassword, ItemNotFound} THEN Answer(401)
  ELSE Answer(500)

createAdmin(e) ==
  IF e = Nil THEN Answer(201)
  ELSE IF e = ItemAlreadyExist THEN Answer(409)
  ELSE Answer(500)

deleteAdminUser(e) ==
  IF e = Nil THEN JSONErrorMessage(204, e)
  ELSE IF e = ItemNotFound THEN JSONErrorMessage(404, e)
  ELSE Answer(500)

\* the handler of use case o; the handlers of the other use cases are not
\* part of this source
Respond(o, e) ==
  CASE o = "CreateCustomerUser" -> createCustomer(e)
    [] o = "DeleteCustomerUser" -> deleteCustomerUser(e)
    [] o = "UpdateAdminPassword" -> updateAdminPassword(e)
    [] o = "CreateAdminUser" -> createAdmin(e)
    [] o = "DeleteAdminUser" -> deleteAdminUser(e)
    [] OTHER -> NoResponse

VARIABLES
  users,      \* the user table: id -> row, for the ids that have a row
  managers,   \* the manager table: user id -> row
  calls,      \* use-case calls started so far
  pc,         \* pc[p]: where process p is in its call
  op,         \* op[p]: the use case p runs
  arg,        \* arg[p]: the request of the call
  expired,    \* expired[p]: the context c of the call is past its deadline
  dbFault,    \* the database failed the repository call of the last step
  user,       \* user[p]: the local *domain.User of the call
  usave,      \* usave[p]: the user Save task of a fan-out
  msave,      \* msave[p]: the manager Save task of a fan-out
  err,        \* err[p]: the error the call returned
  token,      \* token[p]: the token SignInUser returned
  newId,      \* newId[p]: the id a create call returned
  resp        \* resp[p]: what the HTTP handler of the call answered

vars ==
  <<users, managers, calls, pc, op, arg, expired, dbFault, user, usave, msave,
    err, token, newId, resp>>


NoArg == [id |-> 0, username |-> 0, password |-> 0, newPassword |-> 0]

\* ------------------------------------------------------------- contexts
\* A repository call fails when its context is done or when the database
\* fails it (up = FALSE: a driver or server error), and a Save also on a
\* duplicate key.
Storage(up, ctxOk) ==
  /\ up \/ ctxOk
  /\ dbFault' = ~up

\* c, cancel := context.WithTimeout(ctx, u.timeout): a call on c fails once
\* the deadline has passed
UnderC(p) == ~expired[p]

\* the request's own ctx knows nothing of that deadline
UnderCtx(p) == TRUE

\* gc of errgroup.WithContext(c): cancelled with c, and as soon as one task
\* of the group has returned an error
UnderGc(p) == UnderC(p) /\ usave[p] # "fail" /\ msave[p] # "fail"

\* ------------------------------------------------------------- repositories
\* First(&entity, id): absence is (nil, nil); any other error returns the
\* error together with a pointer to the zero entity
GetById(ok, id) ==
  IF ~ok THEN [ptr |-> <<ZeroUser>>, err |-> Internal]
  ELSE IF id \notin DOMAIN users THEN [ptr |-> <<>>, err |-> Nil]
  ELSE [ptr |-> <<Entity(id, users[id])>>, err |-> Nil]

OwnersOf(username) == {i \in DOMAIN users : users[i].username = username}

\* a lookup that returns a nil pointer with its error
GetByUsernameNilOnError(ok, username) ==
  IF ~ok THEN [ptr |-> <<>>, err |-> Internal]
  ELSE IF OwnersOf(username) = {} THEN [ptr |-> <<>>, err |-> Nil]
  ELSE LET i == CHOOSE j \in OwnersOf(username) : TRUE
       IN  [ptr |-> <<Entity(i, users[i])>>, err |-> Nil]

GetByUsername(ok, username) ==
  IF ~ok THEN [ptr |-> <<ZeroUser>>, err |-> Internal]
  ELSE IF OwnersOf(username) = {} THEN [ptr |-> <<>>, err |-> Nil]
  ELSE LET i == CHOOSE j \in OwnersOf(username) : TRUE
       IN  [ptr |-> <<Entity(i, users[i])>>, err |-> Nil]

ManagerGetById(ok, id) ==
  IF ~ok THEN [ptr |-> <<ZeroManager>>, err |-> Internal]
  ELSE IF id \notin DOMAIN managers THEN [ptr |-> <<>>, err |-> Nil]
  ELSE [ptr |-> <<managers[id]>>, err |-> Nil]

\* the unique index on username: another row already has it
Duplicate(u) == OwnersOf(u.username) \ {u.id} # {}

\* Save writes every column of the row with the entity's id
Upsert(table, id, row) ==
  [i \in DOMAIN table \cup {id} |-> IF i = id THEN row ELSE table[i]]

\* r.db.WithContext(ctx).Save(user).Error
SaveOk(ok, u) == ok /\ ~Duplicate(u)

\* a row inserted in a transaction that is still open keeps its unique key
\* locked: a write of the same username by another session waits
InTx(q) == op[q] = "CreateAdminUser" /\ pc[q] = "tx" /\ usave[q] = "ok"

Locked(p, username) ==
  \E q \in Procs \ {p} : InTx(q) /\ user[q][1].username = username

\* ------------------------------------------------------------- initial state
Init ==
  /\ users = <<>>
  /\ managers = <<>>
  /\ calls = 0
  /\ pc = [p \in Procs |-> "idle"]
  /\ op = [p \in Procs |-> ""]
  /\ arg = [p \in Procs |-> NoArg]
  /\ expired = [p \in Procs |-> FALSE]
  /\ dbFault = FALSE
  /\ user = [p \in Procs |-> <<>>]
  /\ usave = [p \in Procs |-> "none"]
  /\ msave = [p \in Procs |-> "none"]
  /\ err = [p \in Procs |-> Nil]
  /\ token = [p \in Procs |-> ""]
  /\ newId = [p \in Procs |-> 0]
  /\ resp = [p \in Procs |-> NoResponse]

\* ------------------------------------------------------------- steps
At(p, o, l) == op[p] = o /\ pc[p] = l

Goto(p, l) ==
  /\ pc' = [pc EXCEPT ![p] = l]
  /\ UNCHANGED <<calls, op, arg, expired, resp>>

\* the call returns e; its context, its request and its locals die with it
Return(p, e) ==
  /\ pc' = [pc EXCEPT ![p] = "done"]
  /\ expired' = [expired EXCEPT ![p] = FALSE]
  /\ UNCHANGED <<calls, op>>
  /\ arg' = [arg EXCEPT ![p] = NoArg]
  /\ err' = [err EXCEPT ![p] = e]
  /\ resp' = [resp EXCEPT ![p] = Respond(op[p], e)]
  /\ user' = [user EXCEPT ![p] = <<>>]
  /\ usave' = [usave EXCEPT ![p] = "none"]
  /\ msave' = [msave EXCEPT ![p] = "none"]

\* ids no row and no call in flight has: uuid.New() yields one of them
UsedIds ==
  DOMAIN users \cup {user[q][1].id : q \in {r \in Procs : user[r] # <<>>}}
    \cup {newId[q] : q \in Procs}

NewUUID == CHOOSE i \in Ids \ UsedIds : \A j \in Ids \ UsedIds : i <= j

\* a new request enters use case o with request a
Call(p, o, a, l) ==
  /\ pc[p] \in {"idle", "done"}
  /\ calls < MaxCalls
  /\ calls' = calls + 1
  /\ pc' = [pc EXCEPT ![p] = l]
  /\ op' = [op EXCEPT ![p] = o]
  /\ arg' = [arg EXCEPT ![p] = a]
  /\ expired' = [expired EXCEPT ![p] = FALSE]
  /\ dbFault' = FALSE
  /\ err' = [err EXCEPT ![p] = Nil]
  /\ token' = [token EXCEPT ![p] = ""]
  /\ newId' = [newId EXCEPT ![p] = 0]
  /\ resp' = [resp EXCEPT ![p] = NoResponse]
  /\ UNCHANGED <<users, managers, user, usave, msave>>

\* userRepo.Save(ctx, u) outside a transaction: the row is written, or the
\* call fails and nothing is
SaveUser(p, ok, u) ==
  /\ SaveOk(ok, u) => ~Locked(p, u.username)
  /\ users' = IF SaveOk(ok, u) THEN Upsert(users, u.id, Row(u)) ELSE users
  /\ UNCHANGED managers

SaveErr(ok, u) == IF SaveOk(ok, u) THEN Nil ELSE Internal

\* ------------------------------------------------------------- CreateCustomerUser
CreateCustomerUser(p) ==
  /\ At(p, "CreateCustomerUser", "tx")
  /\ \E up \in BOOLEAN :
       LET u == createUser(NewUUID, CustomerUserRole, arg[p].username,
                           arg[p].password)
           ok == up /\ UnderC(p)
       IN  /\ Storage(up, UnderC(p))
           /\ SaveUser(p, ok, u)
           /\ newId' = [newId EXCEPT ![p] = u.id]
           /\ Return(p, SaveErr(ok, u))
  /\ UNCHANGED token

\* ------------------------------------------------------------- UpdateAdminPassword
\* the check without the comparison of the old password
UpdateAdminPasswordCheckNoCompare(ptr, oldPassword) ==
  IF ~ExistsAdmin(ptr) THEN ItemNotFound ELSE Nil

UpdateAdminPasswordCheck(ptr, oldPassword) ==
  IF ~ExistsAdmin(ptr) THEN ItemNotFound
  ELSE IF ~ComparePassword(ptr[1], oldPassword) THEN UserWrongPassword
  ELSE Nil

UpdateAdminPasswordGet(p) ==
  /\ At(p, "UpdateAdminPassword", "get")
  /\ \E up \in BOOLEAN :
       LET r == GetById(up /\ UnderC(p), arg[p].id)
           e == UpdateAdminPasswordCheck(r.ptr, arg[p].password)
       IN  /\ Storage(up, UnderC(p))
           /\ IF e # Nil
              THEN Return(p, e)
              ELSE /\ user' = [user EXCEPT
                        ![p] = <<UpdatePassword(r.ptr[1],
                                                arg[p].newPassword)>>]
                   /\ Goto(p, "save")
                   /\ UNCHANGED <<usave, msave, err>>
  /\ UNCHANGED <<users, managers, token, newId>>

UpdateAdminPasswordSave(p) ==
  /\ At(p, "UpdateAdminPassword", "save")
  /\ \E up \in BOOLEAN :
       /\ Storage(up, UnderC(p))
       /\ SaveUser(p, up /\ UnderC(p), user[p][1])
       /\ Return(p, SaveErr(up /\ UnderC(p), user[p][1]))
  /\ UNCHANGED <<token, newId>>

UpdateAdminPassword(p) ==
  \/ UpdateAdminPasswordGet(p)
  \/ UpdateAdminPasswordSave(p)

\* ------------------------------------------------------------- SignInUser
\* the check without the comparison of the password
SignInCheckNoCompare(r, password) ==
  IF r.err # Nil THEN r.err
  ELSE IF r.ptr = <<>> THEN ItemNotFound
  ELSE Nil

\* the error SignInUser returns before it reaches the token adapter; Nil
\* when it calls tokenAdapter.Generate
SignInCheck(r, password) ==
  IF r.err # Nil THEN r.err
  ELSE IF r.ptr = <<>> THEN ItemNotFound
  ELSE IF ComparePassword(r.ptr[1], password) THEN Nil
  ELSE UserWrongPassword

SignInUser(p) ==
  /\ At(p, "SignInUser", "get")
  /\ \E up \in BOOLEAN :
       LET e == SignInCheck(
                  GetByUsername(up /\ UnderC(p), arg[p].username),
                  arg[p].password)
       IN  /\ Storage(up, UnderC(p))
           /\ IF e # Nil
              THEN Return(p, e) /\ UNCHANGED token
              ELSE \E generated \in BOOLEAN :
                     /\ token' = [token EXCEPT
                          ![p] = IF generated THEN "token" ELSE ""]
                     /\ Return(p, IF generated THEN Nil ELSE TokenError)
  /\ UNCHANGED <<users, managers, newId>>

\* ------------------------------------------------------------- DeleteCustomerUser
DeleteCustomerUserCheck(ptr) ==
  IF ptr = <<>> \/ ~IsCustomer(ptr[1]) THEN ItemNotFound ELSE Nil

DeleteCustomerUserGet(p) ==
  /\ At(p, "DeleteCustomerUser", "get")
  /\ \E up \in BOOLEAN :
       LET r == GetById(up /\ UnderC(p), arg[p].id)
       IN  /\ Storage(up, UnderC(p))
           /\ IF DeleteCustomerUserCheck(r.ptr) # Nil
              THEN Return(p, ItemNotFound)
              ELSE /\ user' = [user EXCEPT ![p] = <<Delete(r.ptr[1])>>]
                   /\ Goto(p, "save")
                   /\ UNCHANGED <<usave, msave, err>>
  /\ UNCHANGED <<users, managers, token, newId>>

DeleteCustomerUserSave(p) ==
  /\ At(p, "DeleteCustomerUser", "save")
  /\ \E up \in BOOLEAN :
       /\ Storage(up, UnderCtx(p))
       /\ SaveUser(p, up /\ UnderCtx(p), user[p][1])
       /\ Return(p, SaveErr(up /\ UnderCtx(p), user[p][1]))
  /\ UNCHANGED <<token, newId>>

DeleteCustomerUser(p) ==
  \/ DeleteCustomerUserGet(p)
  \/ DeleteCustomerUserSave(p)

\* ------------------------------------------------------------- DeleteAdminUser
DeleteAdminUserCheck(ptr) ==
  IF ptr = <<>> \/ IsDeleted(ptr[1]) \/ ~IsAdmin(ptr[1])
  THEN ItemNotFound ELSE Nil

DeleteAdminUserGet(p) ==
  /\ At(p, "DeleteAdminUser", "get")
  /\ \E up \in BOOLEAN :
       LET r == GetById(up /\ UnderC(p), arg[p].id)
       IN  /\ Storage(up, UnderC(p))
           /\ IF DeleteAdminUserCheck(r.ptr) # Nil
              THEN Return(p, ItemNotFound)
              ELSE /\ user' = [user EXCEPT ![p] = <<Delete(r.ptr[1])>>]
                   /\ Goto(p, "save")
                   /\ UNCHANGED <<usave, msave, err>>
  /\ UNCHANGED <<users, managers, token, newId>>

DeleteAdminUserSave(p) ==
  /\ At(p, "DeleteAdminUser", "save")
  /\ \E up \in BOOLEAN :
       /\ Storage(up, UnderCtx(p))
       /\ SaveUser(p, up /\ UnderCtx(p), user[p][1])
       /\ Return(p, SaveErr(up /\ UnderCtx(p), user[p][1]))
  /\ UNCHANGED <<token, newId>>

DeleteAdminUser(p) ==
  \/ DeleteAdminUserGet(p)
  \/ DeleteAdminUserSave(p)

\* ------------------------------------------------------------- CreateAdminUser
CreateAdminUserCheck(ptr) == IF ptr # <<>> THEN ItemAlreadyExist ELSE Nil

CreateAdminUserGet(p) ==
  /\ At(p, "CreateAdminUser", "get")
  /\ \E up \in BOOLEAN :
       LET r == GetByUsername(up /\ UnderC(p), arg[p].username)
           u == createUser(NewUUID, AdminUserRole, arg[p].username,
                           arg[p].password)
       IN  /\ Storage(up, UnderC(p))
           /\ IF CreateAdminUserCheck(r.ptr) # Nil
              THEN Return(p, ItemAlreadyExist)
              ELSE /\ user' = [user EXCEPT
                        ![p] = <<[u EXCEPT !.manager = <<CreateManager(u)>>]>>]
                   /\ Goto(p, "begin")
                   /\ UNCHANGED <<usave, msave, err>>
  /\ UNCHANGED <<users, managers, token, newId>>

\* r.db.WithContext(ctx).Transaction(...): the transaction begins, and the
\* two Save tasks of the group start
CreateAdminUserBegin(p) ==
  /\ At(p, "CreateAdminUser", "begin")
  /\ \E up \in BOOLEAN :
       /\ Storage(up, UnderC(p))
       /\ IF up /\ UnderC(p)
          THEN /\ usave' = [usave EXCEPT ![p] = "pending"]
               /\ msave' = [msave EXCEPT ![p] = "pending"]
               /\ Goto(p, "tx")
               /\ UNCHANGED <<user, err, newId>>
          ELSE /\ newId' = [newId EXCEPT ![p] = user[p][1].id]
               /\ Return(p, Internal)
  /\ UNCHANGED <<users, managers, token>>

\* ur.Save(gc, &user): a write inside the transaction, seen by nobody yet
CreateAdminUserSaveUser(p) ==
  /\ At(p, "CreateAdminUser", "tx")
  /\ usave[p] = "pending"
  /\ \E up \in BOOLEAN :
       LET ok == SaveOk(up /\ UnderGc(p), user[p][1])
       IN  /\ Storage(up, UnderGc(p))
           /\ ok => ~Locked(p, user[p][1].username)
           /\ usave' = [usave EXCEPT ![p] = IF ok THEN "ok" ELSE "fail"]
  /\ UNCHANGED <<users, managers, calls, pc, op, arg, expired, user, msave,
                 err, token, newId, resp>>

\* mr.Save(gc, &manager), in the same transaction
CreateAdminUserSaveManager(p) ==
  /\ At(p, "CreateAdminUser", "tx")
  /\ msave[p] = "pending"
  /\ \E up \in BOOLEAN :
       /\ Storage(up, UnderGc(p))
       /\ msave' = [msave EXCEPT
            ![p] = IF up /\ UnderGc(p) THEN "ok" ELSE "fail"]
  /\ UNCHANGED <<users, managers, calls, pc, op, arg, expired, user, usave,
                 err, token, newId, resp>>

\* a commit that does not wait for the manager's Save
TransactionCommitsOnUserSave(p) == usave[p] = "ok" /\ UnderC(p)

\* what the transaction's function returns (g.Wait()) decides the commit
TransactionCommits(p) == usave[p] = "ok" /\ msave[p] = "ok" /\ UnderC(p)

\* g.Wait() has both tasks; the transaction commits the writes made in it,
\* or rolls them back
CreateAdminUserCommit(p) ==
  /\ At(p, "CreateAdminUser", "tx")
  /\ usave[p] # "pending" /\ msave[p] # "pending"
  /\ \E up \in BOOLEAN :
       LET u == user[p][1]
           committed == up /\ TransactionCommits(p)
       IN  /\ Storage(up, TransactionCommits(p))
           /\ users' = IF committed /\ usave[p] = "ok"
                       THEN Upsert(users, u.id, Row(u)) ELSE users
           /\ managers' = IF committed /\ msave[p] = "ok"
                          THEN Upsert(managers, u.id, u.manager[1])
                          ELSE managers
           /\ newId' = [newId EXCEPT ![p] = u.id]
           /\ Return(p, IF committed THEN Nil ELSE Internal)
  /\ UNCHANGED token

CreateAdminUser(p) ==
  \/ CreateAdminUserGet(p)
  \/ CreateAdminUserBegin(p)
  \/ CreateAdminUserSaveUser(p)
  \/ CreateAdminUserSaveManager(p)
  \/ CreateAdminUserCommit(p)

\* ------------------------------------------------------------- UpdateAdminInfo
\* ------------------------------------------------ ForceUpdateAdminInfoBySuperAdmin
\* The two use cases differ in one line: the forced one also sets the
\* password.  o is the use case the process runs.
UpdateOps == {"UpdateAdminInfo", "ForceUpdateAdminInfoBySuperAdmin"}

\* the entity the update goes on with, once it is known to be an admin
Loaded(p, u) ==
  IF op[p] = "ForceUpdateAdminInfoBySuperAdmin"
  THEN UpdatePassword(u, arg[p].password) ELSE u

\* the lookup by username without the comparison of the ids
UsernameCheckNoId(r, userId) ==
  IF r.err # Nil THEN r.err
  ELSE IF r.ptr = <<>> THEN "getById"
  ELSE "own"

\* what the lookup by username decides: the error to return, "getById" when
\* the name is free, "own" when the target itself has it
UsernameCheck(r, userId) ==
  IF r.err # Nil THEN r.err
  ELSE IF r.ptr = <<>> THEN "getById"
  ELSE IF r.ptr[1].id = userId THEN "own"
  ELSE ItemAlreadyExist

UpdateGetByUsername(p, o) ==
  /\ At(p, o, "getByUsername")
  /\ \E up \in BOOLEAN :
       LET r == GetByUsername(up /\ UnderC(p), arg[p].username)
           d == UsernameCheck(r, arg[p].id)
       IN  /\ Storage(up, UnderC(p))
           /\ IF d = "getById"
              THEN Goto(p, "getById") /\ UNCHANGED <<user, usave, msave, err>>
              ELSE IF d = "own" /\ ExistsAdmin(r.ptr)
              THEN /\ user' = [user EXCEPT ![p] = <<Loaded(p, r.ptr[1])>>]
                   /\ Goto(p, "loadManager")
                   /\ UNCHANGED <<usave, msave, err>>
              ELSE Return(p, IF d = "own" THEN ItemNotFound ELSE d)
  /\ UNCHANGED <<users, managers, token, newId>>

UpdateGetById(p, o) ==
  /\ At(p, o, "getById")
  /\ \E up \in BOOLEAN :
       LET r == GetById(up /\ UnderC(p), arg[p].id)
       IN  /\ Storage(up, UnderC(p))
           /\ IF r.err # Nil THEN Return(p, r.err)
              ELSE IF ~ExistsAdmin(r.ptr) THEN Return(p, ItemNotFound)
              ELSE /\ user' = [user EXCEPT ![p] = <<Loaded(p, r.ptr[1])>>]
                   /\ Goto(p, "loadManager")
                   /\ UNCHANGED <<usave, msave, err>>
  /\ UNCHANGED <<users, managers, token, newId>>

\* user.LoadManagerInfo(c, u.managerRepo), then user.UpdateManagerInfo(...),
\* then the two Save tasks of the group start.  An admin-like user always
\* has its manager row (CreateAdminUser makes both), so the lookup either
\* fails or finds it.
UpdateLoadManager(p, o) ==
  /\ At(p, o, "loadManager")
  /\ \E up \in BOOLEAN :
       LET r == ManagerGetById(up /\ UnderC(p), arg[p].id)
       IN  /\ Storage(up, UnderC(p))
           /\ IF r.err # Nil \/ r.ptr = <<>> THEN Return(p, Internal)
              ELSE /\ user' = [user EXCEPT
                        ![p] = <<UpdateManagerInfo(user[p][1],
                                                   arg[p].username)>>]
                   /\ usave' = [usave EXCEPT ![p] = "pending"]
                   /\ msave' = [msave EXCEPT ![p] = "pending"]
                   /\ Goto(p, "fanout")
                   /\ UNCHANGED err
  /\ UNCHANGED <<users, managers, token, newId>>

\* return g.Wait(): the call returns when the second of the two tasks has
\* returned, with an error if either had one
Join(p, u, m) ==
  IF u = "pending" \/ m = "pending"
  THEN /\ usave' = [usave EXCEPT ![p] = u]
       /\ msave' = [msave EXCEPT ![p] = m]
       /\ UNCHANGED <<calls, pc, op, arg, expired, user, err, resp>>
  ELSE Return(p, IF u = "ok" /\ m = "ok" THEN Nil ELSE Internal)

\* g.Go(func() error { return u.userRepo.Save(gc, user) })
UpdateSaveUser(p, o) ==
  /\ At(p, o, "fanout")
  /\ usave[p] = "pending"
  /\ \E up \in BOOLEAN :
       LET ok == up /\ UnderGc(p)
       IN  /\ Storage(up, UnderGc(p))
           /\ SaveUser(p, ok, user[p][1])
           /\ Join(p, IF SaveOk(ok, user[p][1]) THEN "ok" ELSE "fail",
                   msave[p])
  /\ UNCHANGED <<token, newId>>

\* g.Go(func() error { return u.managerRepo.Save(c, user.Manager) })
UpdateSaveManager(p, o) ==
  /\ At(p, o, "fanout")
  /\ msave[p] = "pending"
  /\ \E up \in BOOLEAN :
       LET ok == up /\ UnderC(p)
       IN  /\ Storage(up, UnderC(p))
           /\ managers' = IF ok
                          THEN Upsert(managers, user[p][1].id,
                                      user[p][1].manager[1])
                          ELSE managers
           /\ Join(p, usave[p], IF ok THEN "ok" ELSE "fail")
  /\ UNCHANGED <<users, token, newId>>

UpdateSteps(p, o) ==
  \/ UpdateGetByUsername(p, o)
  \/ UpdateGetById(p, o)
  \/ UpdateLoadManager(p, o)
  \/ UpdateSaveUser(p, o)
  \/ UpdateSaveManager(p, o)

UpdateAdminInfo(p) == UpdateSteps(p, "UpdateAdminInfo")

ForceUpdateAdminInfoBySuperAdmin(p) ==
  UpdateSteps(p, "ForceUpdateAdminInfoBySuperAdmin")

\* ------------------------------------------------------------- environment
\* the deadline of context.WithTimeout(ctx, u.timeout) passes
Timeout(p) ==
  /\ pc[p] \notin {"idle", "done"}
  /\ ~expired[p]
  /\ expired' = [expired EXCEPT ![p] = TRUE]
  /\ dbFault' = FALSE
  /\ UNCHANGED <<users, managers, calls, pc, op, arg, user, usave, msave,
                 err, token, newId, resp>>

\* ------------------------------------------------------------- requests
\* the ids a request can name: those of the rows there are, and a stranger
RequestIds == DOMAIN users \cup {UnknownId}

Request(p) ==
  \/ \E n \in Usernames, w \in Passwords :
       Call(p, "CreateCustomerUser",
            [NoArg EXCEPT !.username = n, !.password = w], "tx")
  \/ \E n \in Usernames, w \in Passwords :
       Call(p, "CreateAdminUser",
            [NoArg EXCEPT !.username = n, !.password = w], "get")
  \/ \E n \in Usernames, w \in Passwords :
       Call(p, "SignInUser",
            [NoArg EXCEPT !.username = n, !.password = w], "get")
  \/ \E i \in RequestIds, w \in Passwords, v \in Passwords :
       Call(p, "UpdateAdminPassword",
            [NoArg EXCEPT !.id = i, !.password = w, !.newPassword = v], "get")
  \/ \E i \in RequestIds, n \in Usernames :
       Call(p, "UpdateAdminInfo",
            [NoArg EXCEPT !.id = i, !.username = n], "getByUsername")
  \/ \E i \in RequestIds, n \in Usernames, w \in Passwords :
       Call(p, "ForceUpdateAdminInfoBySuperAdmin",
            [NoArg EXCEPT !.id = i, !.username = n, !.password = w],
            "getByUsername")
  \/ \E i \in RequestIds :
       Call(p, "DeleteCustomerUser", [NoArg EXCEPT !.id = i], "get")
  \/ \E i \in RequestIds :
       Call(p, "DeleteAdminUser", [NoArg EXCEPT !.id = i], "get")

Next ==
  \/ \E p \in Procs :
       \/ Request(p)
       \/ CreateCustomerUser(p)
       \/ UpdateAdminPassword(p)
       \/ UpdateAdminInfo(p)
       \/ ForceUpdateAdminInfoBySuperAdmin(p)
       \/ SignInUser(p)
       \/ DeleteCustomerUser(p)
       \/ CreateAdminUser(p)
       \/ DeleteAdminUser(p)
       \/ Timeout(p)

Spec == Init /\ [][Next]_vars

\* ============================================================= properties
\* the database answers the repository call of the step taken
Answered == ~dbFault'

\* the repository call of p's step is answered within the timeout
InTime(p) == UnderC(p) /\ Answered

\* process p takes a step of its call
Acts(p) ==
  \/ pc'[p] # pc[p]
  \/ usave'[p] # usave[p]
  \/ msave'[p] # msave[p]

Returned(p, o) == pc[p] = "done" /\ op[p] = o

AdminLike(i) ==
  /\ i \in DOMAIN users
  /\ users[i].role \in {AdminUserRole, SuperAdminUserRole}

\* C1: once CreateAdminUser has returned, the user row it made is in the
\* table exactly if its manager row is: both after success, neither after a
\* failure.  In every state the manager rows are those of the admin rows.
CreateAdminAtomic ==
  /\ DOMAIN managers = {i \in DOMAIN users : users[i].role = AdminUserRole}
  /\ \A p \in Procs :
       Returned(p, "CreateAdminUser") /\ newId[p] # 0 =>
         /\ newId[p] \in DOMAIN users <=> newId[p] \in DOMAIN managers
         /\ err[p] = Nil => newId[p] \in DOMAIN users
         /\ err[p] # Nil => newId[p] \notin DOMAIN users

\* one create has failed after it made its user, another has succeeded
CreateAdminAtomicWitness ==
  \E p, q \in Procs :
    /\ Returned(p, "CreateAdminUser") /\ err[p] = Internal /\ newId[p] # 0
    /\ Returned(q, "CreateAdminUser") /\ err[q] = Nil
    /\ newId[q] \in DOMAIN managers

\* C2: when a user row has the requested email as its username,
\* CreateAdminUser returns ItemAlreadyExist at its lookup: it creates no
\* entity, starts no transaction and writes no table.
CreateAdminDuplicate ==
  [][\A p \in Procs :
       /\ At(p, "CreateAdminUser", "get")
       /\ Acts(p)
       /\ OwnersOf(arg[p].username) # {}
       => /\ pc'[p] = "done"
          /\ err'[p] = ItemAlreadyExist
          /\ newId'[p] = 0
          /\ users' = users
          /\ managers' = managers]_vars

\* a create has returned ItemAlreadyExist where every username has a row
CreateAdminDuplicateWitness ==
  \E p \in Procs :
    /\ Returned(p, "CreateAdminUser")
    /\ err[p] = ItemAlreadyExist
    /\ newId[p] = 0
    /\ \A n \in Usernames : OwnersOf(n) # {}

\* C3: SignInUser reaches the token adapter only if the lookup found a user
\* whose credential matches the password.  When the lookup finds no user it
\* returns ItemNotFound, when it finds one with another credential it
\* returns UserWrongPassword, both times with no token and no Generate.
SignInGuard ==
  [][\A p \in Procs :
       At(p, "SignInUser", "get") /\ Acts(p) =>
         LET owners == OwnersOf(arg[p].username)
             match == /\ InTime(p)
                      /\ \E i \in owners :
                           ComparePassword(users[i], arg[p].password)
             generate == token'[p] # "" \/ err'[p] \in {Nil, TokenError}
         IN  /\ generate => match
             /\ InTime(p) /\ owners = {} =>
                  err'[p] = ItemNotFound /\ token'[p] = ""
             /\ InTime(p) /\ owners # {} /\ ~match =>
                  err'[p] = UserWrongPassword /\ token'[p] = ""]_vars

\* one sign-in has met an unknown username, another a wrong password
SignInGuardWitness ==
  \E p, q \in Procs :
    /\ Returned(p, "SignInUser") /\ err[p] = ItemNotFound
    /\ Returned(q, "SignInUser") /\ err[q] = UserWrongPassword

\* C4: DeleteCustomerUser on a customer that is not deleted goes on to its
\* Save and, when the Save succeeds, returns nil with the row soft-deleted;
\* on a customer that is already soft-deleted it returns ItemNotFound and
\* writes nothing.
DeleteCustomerTwice ==
  [][\A p \in Procs :
       LET i == arg[p].id
       IN  /\ /\ At(p, "DeleteCustomerUser", "get")
              /\ Acts(p)
              /\ InTime(p)
              /\ i \in DOMAIN users
              /\ IsCustomer(users[i])
              => IF IsDeleted(users[i])
                 THEN /\ pc'[p] = "done"
                      /\ err'[p] = ItemNotFound
                      /\ users' = users
                 ELSE pc'[p] = "save"
           /\ /\ At(p, "DeleteCustomerUser", "save")
              /\ Acts(p)
              /\ SaveOk(UnderCtx(p) /\ Answered, user[p][1])
              => err'[p] = Nil /\ IsDeleted(users'[i])]_vars

\* C5: a user row that is soft-deleted stays soft-deleted, whatever step is
\* taken.
SoftDeletedTerminal ==
  [][\A i \in DOMAIN users :
       IsDeleted(users[i]) => i \in DOMAIN users' /\ IsDeleted(users'[i])]_vars

\* C6: in UpdateAdminInfo and ForceUpdateAdminInfoBySuperAdmin, when the
\* lookup by the new username finds a row of another id, the call returns
\* ItemAlreadyExist at once and writes no table; when the username belongs
\* to the target or to nobody, no step of the call returns ItemAlreadyExist.
UsernameConflict ==
  [][\A p \in Procs :
       op[p] \in UpdateOps /\ pc[p] \notin {"idle", "done"} /\ Acts(p) =>
         LET others == OwnersOf(arg[p].username) \ {arg[p].id}
             found == pc[p] = "getByUsername" /\ InTime(p) /\ others # {}
         IN  /\ found => /\ pc'[p] = "done"
                         /\ err'[p] = ItemAlreadyExist
                         /\ users' = users
                         /\ managers' = managers
             /\ ~found => err'[p] # ItemAlreadyExist]_vars

\* an update has returned ItemAlreadyExist where two admins have their rows
UsernameConflictWitness ==
  \E p \in Procs :
    /\ op[p] \in UpdateOps
    /\ pc[p] = "done"
    /\ err[p] = ItemAlreadyExist
    /\ \E i, j \in DOMAIN users : i # j /\ AdminLike(i) /\ AdminLike(j)

\* C7: UpdateAdminPassword.  Its lookup returns ItemNotFound when the id has
\* no admin-like row and UserWrongPassword when the old password does not
\* match the row's credential, and writes nothing; with the right old
\* password it goes on to its Save.  When the Save succeeds the call returns
\* nil and the row's credential matches the new password, and no longer the
\* old one if the two differ; when the Save fails the row is as it was.
PasswordUpdated ==
  [][\A p \in Procs :
       LET i == arg[p].id
           old == arg[p].password
           new == arg[p].newPassword
       IN  /\ At(p, "UpdateAdminPassword", "get") /\ Acts(p) =>
                /\ ~AdminLike(i) =>
                     /\ pc'[p] = "done"
                     /\ err'[p] = ItemNotFound
                     /\ users' = users
                /\ InTime(p) /\ AdminLike(i)
                     /\ ~ComparePassword(users[i], old) =>
                     /\ pc'[p] = "done"
                     /\ err'[p] = UserWrongPassword
                     /\ users' = users
                /\ InTime(p) /\ AdminLike(i)
                     /\ ComparePassword(users[i], old) =>
                     /\ pc'[p] = "save"
                     /\ users' = users
           /\ At(p, "UpdateAdminPassword", "save") /\ Acts(p) =>
                /\ SaveOk(InTime(p), user[p][1]) => err'[p] = Nil
                /\ err'[p] = Nil =>
                     /\ ComparePassword(users'[i], new)
                     /\ new # old => ~ComparePassword(users'[i], old)
                /\ err'[p] # Nil => users' = users]_vars

\* one call on an admin has returned nil, another UserWrongPassword
PasswordUpdatedWitness ==
  \E p, q \in Procs :
    /\ Returned(p, "UpdateAdminPassword") /\ err[p] = Nil
    /\ Returned(q, "UpdateAdminPassword") /\ err[q] = UserWrongPassword
    /\ \E i \in DOMAIN users : AdminLike(i)

\* C8: once the timeout of a call has expired, no step of the call writes a
\* table, and the call returns an error.
TimeoutBoundsCall ==
  [][\A p \in Procs :
       expired[p] /\ Acts(p) =>
         /\ users' = users
         /\ managers' = managers
         /\ pc'[p] = "done" => err'[p] # Nil]_vars

\* C9: when the first lookup of UpdateAdminPassword, DeleteCustomerUser,
\* DeleteAdminUser or CreateAdminUser fails with another error than absence
\* (the timeout, a database error), the call returns an error that is none
\* of ItemNotFound, ItemAlreadyExist and UserWrongPassword, and writes
\* nothing.
LookupFailureStaysInternal ==
  [][\A p \in Procs :
       /\ op[p] \in {"UpdateAdminPassword", "DeleteCustomerUser",
                     "DeleteAdminUser", "CreateAdminUser"}
       /\ pc[p] = "get"
       /\ Acts(p)
       /\ ~InTime(p)
       => /\ pc'[p] = "done"
          /\ err'[p] \notin DomainErrors \cup {Nil}
          /\ users' = users
          /\ managers' = managers]_vars

\* C10: the delete handlers answer 204 when their use case returned nil, 404
\* when it returned ItemNotFound and 500 for any other error, and never
\* fault.
DeleteHandlersAnswer ==
  \A p \in Procs :
    pc[p] = "done" /\ op[p] \in {"DeleteCustomerUser", "DeleteAdminUser"} =>
      /\ ~resp[p].fault
      /\ resp[p].status = IF err[p] = Nil THEN 204
                          ELSE IF err[p] = ItemNotFound THEN 404
                          ELSE 500

\* C11: when every call so far has either made a row or is an update of an
\* admin that has returned nil, each manager row has the username of its
\* user row.
UpdatesInView ==
  calls = Cardinality(DOMAIN users)
            + Cardinality({p \in Procs : op[p] \in UpdateOps})

MirrorSynchronized ==
  /\ UpdatesInView
  /\ \A p \in Procs : op[p] \in UpdateOps => pc[p] = "done" /\ err[p] = Nil
  => \A i \in DOMAIN managers :
       i \in DOMAIN users /\ managers[i].username = users[i].username

\* C12: in a fan-out of two Saves, a Save task that runs after its sibling
\* has failed writes no table and fails, and the join returns an error.
SiblingCancelled ==
  [][\A p \in Procs :
       /\ pc[p] \in {"tx", "fanout"}
       /\ Acts(p)
       /\ usave[p] = "fail" \/ msave[p] = "fail"
       => /\ users' = users
          /\ managers' = managers
          /\ usave'[p] # "ok" /\ msave'[p] # "ok"
          /\ pc'[p] = "done" => err'[p] # Nil]_vars

====
